---- MODULE Spec2Model ----
(***************************************************************************)
(* A model of nestjs-cqrs-analyzer: the per-file pattern extraction        *)
(* (file-analyzer), the edge aggregation and budget truncation of          *)
(* CQRSAnalyzer.analyze, the second truncation of the Mermaid generator,   *)
(* and the architecture graph analyzer.                                    *)
(*                                                                         *)
(* A source unit is a pre-order sequence of syntax nodes with parent       *)
(* links.  Source text is a sequence of lexical tokens; identifiers are    *)
(* strings.  JavaScript Sets and Maps are sequences in insertion order.    *)
(***************************************************************************)
EXTENDS Integers, Sequences, FiniteSets, TLC

VARIABLES
    files,                \* tsFiles: the parsed source units, in discovery order
    maxEdges,             \* options.maxEdges
    diagramFormat,        \* options.diagramFormat
    pc,                   \* position of CQRSAnalyzer.analyze
    status,               \* per unit: position of its analyzeFile task
    running,              \* the unit whose synchronous traversal is on the stack (0: none)
    pos,                  \* pre-order index of the next node visitNode will visit
    busUsages,            \* analysisResult.busUsages
    handlerDeclarations,  \* analysisResult.handlerDeclarations
    collected,            \* the aggregate as it was when Promise.all resolved
    architectureAnalysis, \* return value of analyzeArchitecture
    diagrams,             \* the edge lists each generated diagram was rendered from
    formatIdx,            \* index of the next entry of diagramFormat
    errors                \* what was logged with console.error / raised

vars == <<files, maxEdges, diagramFormat, pc, status, running, pos, busUsages,
          handlerDeclarations, collected, architectureAnalysis, diagrams,
          formatIdx, errors>>

-----------------------------------------------------------------------------
(* Bounds of the model *)

NumFiles == 2        \* source units of one run
MaxBudget == 3       \* largest options.maxEdges of a run over source units
MaxDecorators == 2   \* decorators on a generated class declaration
MaxBusT == 4         \* bus usages of an aggregate handed to the truncation
MaxHandlersT == 3    \* handler declarations of an aggregate handed to the truncation
MaxBus == 3          \* bus usages of an aggregate handed to analyzeArchitecture
MaxHandlers == 3     \* handler declarations of an aggregate handed to analyzeArchitecture

-----------------------------------------------------------------------------
(* Generic sequence helpers *)

Range(s) == {s[i] : i \in DOMAIN s}

SeqsUpTo(S, n) == UNION {[1..k -> S] : k \in 0..n}

Min(a, b) == IF a < b THEN a ELSE b

Max(a, b) == IF a > b THEN a ELSE b

\* Array.prototype.slice(0, n) for an integer n >= 0
Slice(s, n) == SubSeq(s, 1, Min(n, Len(s)))

IsPrefix(s, t) == Len(s) <= Len(t) /\ s = SubSeq(t, 1, Len(s))

RECURSIVE Concat(_)
Concat(ss) == IF ss = <<>> THEN <<>> ELSE Head(ss) \o Concat(Tail(ss))

RECURSIVE JoinWith(_, _)
JoinWith(ss, sep) ==
    IF ss = <<>> THEN <<>>
    ELSE IF Len(ss) = 1 THEN Head(ss)
    ELSE Head(ss) \o <<sep>> \o JoinWith(Tail(ss), sep)

Null == "<null>"

-----------------------------------------------------------------------------
(* types/index.ts *)

BusTypes == {"EventBus", "QueryBus", "CommandBus"}
HandlerTypes == {"QueryHandler", "CommandHandler", "EventsHandler"}

INFO == "info"
WARNING == "warning"

\* variant: no severity above warning
ErrorAsWarning == "warning"

ERROR == "error"

-----------------------------------------------------------------------------
(* Syntax trees.  An expression is [kind, obj, name]:                      *)
(*   Identifier      name                                                  *)
(*   PropertyAccess  obj.name                                              *)
(*   New             new name()  (obj = "")  or  new obj.name()            *)
(*   StringLiteral   'name'                                                *)
(*   ArrayLiteral    [obj, name]                                           *)
(*   This            this                                                  *)
(*   Call            name()                                                *)

Identifier(n) == [kind |-> "Identifier", obj |-> "", name |-> n]
PropertyAccess(o, n) == [kind |-> "PropertyAccess", obj |-> o, name |-> n]
NewExpr(n) == [kind |-> "New", obj |-> "", name |-> n]
NewQualified(o, n) == [kind |-> "New", obj |-> o, name |-> n]
StringLiteral(n) == [kind |-> "StringLiteral", obj |-> "", name |-> n]
ArrayLiteral(a, b) == [kind |-> "ArrayLiteral", obj |-> a, name |-> b]
ThisExpr == [kind |-> "This", obj |-> "", name |-> "this"]
CallResult(n) == [kind |-> "Call", obj |-> "", name |-> n]

\* Node.getText() of an expression, as tokens
ExprTokens(e) ==
    CASE e.kind = "Identifier" -> <<e.name>>
      [] e.kind = "PropertyAccess" -> <<e.obj, ".", e.name>>
      [] e.kind = "New" -> IF e.obj = "" THEN <<"new", e.name, "(", ")">>
                           ELSE <<"new", e.obj, ".", e.name, "(", ")">>
      [] e.kind = "StringLiteral" -> <<"'", e.name, "'">>
      [] e.kind = "ArrayLiteral" -> <<"[", e.obj, ",", e.name, "]">>
      [] e.kind = "This" -> <<"this">>
      [] e.kind = "Call" -> <<e.name, "(", ")">>

ArgTokens(args) == JoinWith([i \in DOMAIN args |-> ExprTokens(args[i])], ",")

TypeArgTokens(targs) ==
    IF targs = <<>> THEN <<>>
    ELSE <<"<">> \o JoinWith([i \in DOMAIN targs |-> <<targs[i]>>], ",") \o <<">">>

\* A decorator: @callee, @callee(args) or @callee<typeArguments>(args)
Decorator(callee, isCall, targs, args) ==
    [callee |-> callee, isCall |-> isCall, typeArguments |-> targs, arguments |-> args]

DecoratorTokens(d) ==
    <<"@">> \o ExprTokens(d.callee)
    \o (IF d.isCall THEN TypeArgTokens(d.typeArguments) \o <<"(">>
                         \o ArgTokens(d.arguments) \o <<")">>
        ELSE <<>>)

\* Syntax nodes; every node carries every field
NoExpr == [kind |-> "None", obj |-> "", name |-> ""]

ClassDecl(parent, name, decorators) ==
    [kind |-> "ClassDeclaration", parent |-> parent, name |-> name, isIdent |-> name # "",
     decorators |-> decorators, receiver |-> NoExpr, typeArguments |-> <<>>,
     arguments |-> <<>>, text |-> <<>>]

MethodDecl(parent, name, isIdent) ==
    [kind |-> "MethodDeclaration", parent |-> parent, name |-> name, isIdent |-> isIdent,
     decorators |-> <<>>, receiver |-> NoExpr, typeArguments |-> <<>>,
     arguments |-> <<>>, text |-> <<>>]

\* receiver.name<typeArguments>(arguments); receiver = NoExpr: the callee is no property access
CallExpr(parent, receiver, name, targs, args) ==
    [kind |-> "CallExpression", parent |-> parent, name |-> name, isIdent |-> TRUE,
     decorators |-> <<>>, receiver |-> receiver, typeArguments |-> targs,
     arguments |-> args, text |-> <<>>]

\* any other node (a property with a string initialiser, a statement, ...) and its text
OtherNode(parent, text) ==
    [kind |-> "Other", parent |-> parent, name |-> "", isIdent |-> FALSE,
     decorators |-> <<>>, receiver |-> NoExpr, typeArguments |-> <<>>,
     arguments |-> <<>>, text |-> text]

-----------------------------------------------------------------------------
(* file-analyzer/index.ts *)

\* the characters of the identifiers and words that are lower-cased or searched
Spelling(s) ==
    CASE s = "" -> <<>>
      [] s = "commandBus" -> <<"c", "o", "m", "m", "a", "n", "d", "B", "u", "s">>
      [] s = "queryBus" -> <<"q", "u", "e", "r", "y", "B", "u", "s">>
      [] s = "eventBus" -> <<"e", "v", "e", "n", "t", "B", "u", "s">>
      [] s = "QueryBus" -> <<"Q", "u", "e", "r", "y", "B", "u", "s">>
      [] s = "eventQueryBus" -> <<"e", "v", "e", "n", "t", "Q", "u", "e", "r", "y", "B", "u", "s">>
      [] s = "commandQueryBus" -> <<"c", "o", "m", "m", "a", "n", "d", "Q", "u", "e", "r", "y", "B", "u", "s">>
      [] s = "commandService" -> <<"c", "o", "m", "m", "a", "n", "d", "S", "e", "r", "v", "i", "c", "e">>
      [] s = "busyEventLog" -> <<"b", "u", "s", "y", "E", "v", "e", "n", "t", "L", "o", "g">>
      [] s = "bus" -> <<"b", "u", "s">>
      [] s = "service" -> <<"s", "e", "r", "v", "i", "c", "e">>
      [] s = "inner" -> <<"i", "n", "n", "e", "r">>
      [] s = "event" -> <<"e", "v", "e", "n", "t">>
      [] s = "query" -> <<"q", "u", "e", "r", "y">>
      [] s = "command" -> <<"c", "o", "m", "m", "a", "n", "d">>
      [] s = "mermaid" -> <<"m", "e", "r", "m", "a", "i", "d">>
      [] s = "Mermaid" -> <<"M", "e", "r", "m", "a", "i", "d">>
      [] s = "html" -> <<"h", "t", "m", "l">>
      [] s = "svg" -> <<"s", "v", "g">>

\* String.prototype.toLowerCase, on a sequence of characters
toLowerCase(chars) ==
    LET lower(ch) ==
            CASE ch = "B" -> "b"
              [] ch = "E" -> "e"
              [] ch = "L" -> "l"
              [] ch = "M" -> "m"
              [] ch = "Q" -> "q"
              [] ch = "S" -> "s"
              [] OTHER -> ch
    IN  [k \in DOMAIN chars |-> lower(chars[k])]

\* String.prototype.includes, on sequences of characters
includes(chars, needle) ==
    \E k \in 0..(Len(chars) - Len(needle)) : SubSeq(chars, k + 1, k + Len(needle)) = needle

RECURSIVE findParentClass(_, _)
findParentClass(nodes, i) ==
    IF i = 0 THEN Null
    ELSE IF nodes[i].kind = "ClassDeclaration" /\ nodes[i].name # "" THEN nodes[i].name
    ELSE findParentClass(nodes, nodes[i].parent)

\* variant: a method declaration with a non-identifier name is passed over
RECURSIVE findMethodNameOutward(_, _)
findMethodNameOutward(nodes, i) ==
    IF i = 0 THEN Null
    ELSE IF nodes[i].kind = "MethodDeclaration" /\ nodes[i].isIdent THEN nodes[i].name
    ELSE findMethodNameOutward(nodes, nodes[i].parent)

RECURSIVE findMethodName(_, _)
findMethodName(nodes, i) ==
    IF i = 0 THEN Null
    ELSE IF nodes[i].kind = "MethodDeclaration"
         THEN (IF nodes[i].isIdent THEN nodes[i].name ELSE Null)
    ELSE findMethodName(nodes, nodes[i].parent)

\* variant: the first argument is consulted before the type arguments
extractTypeArgumentArgsFirst(node) ==
    IF Len(node.arguments) > 0
       /\ \/ node.arguments[1].kind \in {"Identifier", "PropertyAccess"}
          \/ node.arguments[1].kind = "New" /\ node.arguments[1].obj = ""
    THEN node.arguments[1].name
    ELSE IF Len(node.typeArguments) > 0 THEN node.typeArguments[1]
    ELSE "Unknown"

\* node: anything with typeArguments and arguments (a call or a decorator call)
extractTypeArgument(node) ==
    IF Len(node.typeArguments) > 0 THEN node.typeArguments[1]
    ELSE IF Len(node.arguments) > 0
         THEN LET firstArg == node.arguments[1]
              IN  IF firstArg.kind = "New" /\ firstArg.obj = "" THEN firstArg.name
                  ELSE IF firstArg.kind = "Identifier" THEN firstArg.name
                  ELSE IF firstArg.kind = "PropertyAccess" THEN firstArg.name
                  ELSE "Unknown"
    ELSE "Unknown"

\* variant: query is looked for before event
determineBusTypeQueryFirst(objectName) ==
    LET lowerName == toLowerCase(Spelling(objectName))
        has(word) == includes(lowerName, Spelling(word))
    IN  IF has("query") /\ has("bus") THEN "QueryBus"
        ELSE IF has("event") /\ has("bus") THEN "EventBus"
        ELSE IF has("command") /\ has("bus") THEN "CommandBus"
        ELSE Null

determineBusType(objectName) ==
    LET lowerName == toLowerCase(Spelling(objectName))
        has(word) == includes(lowerName, Spelling(word))
    IN  IF has("event") /\ has("bus") THEN "EventBus"
        ELSE IF has("query") /\ has("bus") THEN "QueryBus"
        ELSE IF has("command") /\ has("bus") THEN "CommandBus"
        ELSE Null

\* variant: only a simple identifier names the receiver
getObjectNameIdentifierOnly(expr) == IF expr.kind = "Identifier" THEN expr.name ELSE ""

getObjectName(expr) ==
    IF expr.kind = "Identifier" THEN expr.name
    ELSE IF expr.kind = "PropertyAccess" THEN expr.name
    ELSE ""

\* getLineAndCharacter: the start of node i; later nodes of a unit start later
getLineAndCharacter(nodes, i) == i

DispatchMethods == {"publish", "execute", "dispatch"}

\* the busUsages after processPotentialBusUsage on call node i
processPotentialBusUsage(nodes, i, filePath, usages) ==
    LET node == nodes[i]
        busType == determineBusType(getObjectName(node.receiver))
        parentClass == findParentClass(nodes, i)
    IN  IF node.receiver.kind = "None" THEN usages
        ELSE IF node.name \notin DispatchMethods THEN usages
        ELSE IF busType = Null THEN usages
        ELSE Append(usages,
                    [sourceFile |-> filePath,
                     className |-> IF parentClass = Null THEN "Unknown" ELSE parentClass,
                     methodName |-> findMethodName(nodes, i),
                     busType |-> busType,
                     eventType |-> extractTypeArgument(node),
                     position |-> getLineAndCharacter(nodes, i)])

RECURSIVE IsWithin(_, _, _)
\* node j is node a or one of its descendants
IsWithin(nodes, a, j) ==
    IF j = a THEN TRUE
    ELSE IF j = 0 THEN FALSE
    ELSE IsWithin(nodes, a, nodes[j].parent)

\* the tokens a node contributes to the text of the declarations around it
NodeTokens(n) ==
    CASE n.kind = "ClassDeclaration" ->
            Concat([k \in DOMAIN n.decorators |-> DecoratorTokens(n.decorators[k])])
            \o <<"class", n.name, "{">>
      [] n.kind = "MethodDeclaration" -> <<n.name, "(", ")", "{">>
      [] n.kind = "CallExpression" ->
            (IF n.receiver.kind = "None" THEN <<>> ELSE ExprTokens(n.receiver) \o <<".">>)
            \o <<n.name>> \o TypeArgTokens(n.typeArguments)
            \o <<"(">> \o ArgTokens(n.arguments) \o <<")">>
      [] OTHER -> n.text

\* node.getText(sourceFile) of class declaration i: its decorators, header and body
ClassText(nodes, i) ==
    Concat([j \in 1..Len(nodes) |->
               IF IsWithin(nodes, i, j) THEN NodeTokens(nodes[j]) ELSE <<>>])

Punctuation == {"@", "(", ")", ".", ",", "'", "<", ">", "{", "}", "[", "]"}

\* the least index >= i of a ")" token, 0 if there is none
RECURSIVE ClosingParen(_, _)
ClosingParen(toks, i) ==
    IF i > Len(toks) THEN 0
    ELSE IF toks[i] = ")" THEN i
    ELSE ClosingParen(toks, i + 1)

\* nodeText.matchAll(/@(QueryHandler|CommandHandler|EventsHandler)\s*\(([^)]*)\)/g) from token i:
\* the matches [handlerType, argsText], left to right, not overlapping
RECURSIVE decoratorMatches(_, _)
decoratorMatches(toks, i) ==
    IF i + 3 > Len(toks) THEN <<>>
    ELSE IF /\ toks[i] = "@"
            /\ toks[i + 1] \in HandlerTypes
            /\ toks[i + 2] = "("
            /\ ClosingParen(toks, i + 3) # 0
         THEN LET j == ClosingParen(toks, i + 3)
              IN  <<[handlerType |-> toks[i + 1], argsText |-> SubSeq(toks, i + 3, j - 1)]>>
                  \o decoratorMatches(toks, j + 1)
    ELSE decoratorMatches(toks, i + 1)

\* variant: without a word in the argument text the event type is empty
RECURSIVE classNameMatchOrEmpty(_)
classNameMatchOrEmpty(argsText) ==
    IF argsText = <<>> THEN ""
    ELSE IF Head(argsText) \notin Punctuation THEN Head(argsText)
    ELSE classNameMatchOrEmpty(Tail(argsText))

\* argsText.match(/([A-Za-z0-9_]+)/): the first word of the argument text, else 'Unknown'
RECURSIVE classNameMatch(_)
classNameMatch(argsText) ==
    IF argsText = <<>> THEN "Unknown"
    ELSE IF Head(argsText) \notin Punctuation THEN Head(argsText)
    ELSE classNameMatch(Tail(argsText))

HandlerEdge(filePath, className, handlerType, eventType, position) ==
    [sourceFile |-> filePath, className |-> className, handlerType |-> handlerType,
     eventType |-> eventType, position |-> position]

\* lines 236-259: one edge per lexical match (Path A)
PathAEdges(nodes, i, filePath) ==
    LET ms == decoratorMatches(ClassText(nodes, i), 1)
    IN  [k \in DOMAIN ms |->
            HandlerEdge(filePath, nodes[i].name, ms[k].handlerType,
                        classNameMatch(ms[k].argsText), getLineAndCharacter(nodes, i))]

\* lines 269-280: the decorator is a call of an identifier that names a handler kind
IsHandlerDecorator(d) ==
    /\ d.isCall
    /\ d.callee.kind = "Identifier"
    /\ d.callee.name \in HandlerTypes

\* variant: the existence check also compares the event type
AppendUnlessSameEvent(decls, edge) ==
    IF \E k \in DOMAIN decls :
          /\ decls[k].className = edge.className
          /\ decls[k].handlerType = edge.handlerType
          /\ decls[k].eventType = edge.eventType
    THEN decls
    ELSE Append(decls, edge)

\* lines 286-298: append unless an edge with the class name and handler kind exists
AppendUnlessExists(decls, edge) ==
    IF \E k \in DOMAIN decls :
          decls[k].className = edge.className /\ decls[k].handlerType = edge.handlerType
    THEN decls
    ELSE Append(decls, edge)

\* lines 268-299: the loop over the structured decorators from decorator k on (Path B)
RECURSIVE PathBLoop(_, _, _, _, _)
PathBLoop(nodes, i, filePath, decls, k) ==
    IF k > Len(nodes[i].decorators) THEN decls
    ELSE LET d == nodes[i].decorators[k]
         IN  IF ~IsHandlerDecorator(d) THEN PathBLoop(nodes, i, filePath, decls, k + 1)
             ELSE PathBLoop(nodes, i, filePath,
                            AppendUnlessExists(decls,
                                HandlerEdge(filePath, nodes[i].name, d.callee.name,
                                            extractTypeArgument(d),
                                            getLineAndCharacter(nodes, i))),
                            k + 1)

\* the handlerDeclarations after processHandlerDeclaration on class node i
processHandlerDeclaration(nodes, i, filePath, decls) ==
    IF nodes[i].name = "" THEN decls
    ELSE PathBLoop(nodes, i, filePath, decls \o PathAEdges(nodes, i, filePath), 1)

\* processHandlerDeclaration on named class node i when the try block throws while it
\* handles decorator failAt (or before the loop, failAt = 1): the catch logs a note, the
\* pushes of Path A and of the decorators before failAt stay
processHandlerDeclarationCaught(nodes, i, filePath, decls, failAt) ==
    LET handled == [nodes EXCEPT ![i].decorators = SubSeq(@, 1, failAt - 1)]
    IN  PathBLoop(handled, i, filePath, decls \o PathAEdges(nodes, i, filePath), 1)

\* visitNode on node i alone (its children are the later nodes of the pre-order)
visitNode(nodes, i, filePath, result) ==
    [busUsages |->
        IF nodes[i].kind = "CallExpression"
        THEN processPotentialBusUsage(nodes, i, filePath, result.busUsages)
        ELSE result.busUsages,
     handlerDeclarations |->
        IF nodes[i].kind = "ClassDeclaration"
        THEN processHandlerDeclaration(nodes, i, filePath, result.handlerDeclarations)
        ELSE result.handlerDeclarations]

\* visitNode on node i and, through forEachChild, on every later node of the pre-order
RECURSIVE visitNodes(_, _, _, _)
visitNodes(nodes, i, filePath, result) ==
    IF i > Len(nodes) THEN result
    ELSE visitNodes(nodes, i + 1, filePath, visitNode(nodes, i, filePath, result))

-----------------------------------------------------------------------------
(* analyzer.ts (CQRSAnalyzer.analyze) and mermaid-generator.ts: the edge budget *)

\* the last n elements of s
LastOf(s, n) == SubSeq(s, Len(s) - Min(n, Len(s)) + 1, Len(s))

\* variant: half the budget is rounded up
ApplyMaxEdgesCeil(result, limit) ==
    LET totalEdges == Len(result.busUsages) + Len(result.handlerDeclarations)
    IN  IF limit # 0 /\ limit > 0 /\ totalEdges > limit
        THEN LET bus == IF 2 * Len(result.busUsages) > limit
                        THEN Slice(result.busUsages, (limit + 1) \div 2)
                        ELSE result.busUsages
                 remainingEdges == limit - Len(bus)
                 decls == IF remainingEdges > 0
                             /\ Len(result.handlerDeclarations) > remainingEdges
                          THEN Slice(result.handlerDeclarations, remainingEdges)
                          ELSE result.handlerDeclarations
             IN  [busUsages |-> bus, handlerDeclarations |-> decls]
        ELSE result

\* variant: the latest edges are kept instead of the earliest
ApplyMaxEdgesTail(result, limit) ==
    LET totalEdges == Len(result.busUsages) + Len(result.handlerDeclarations)
    IN  IF limit # 0 /\ limit > 0 /\ totalEdges > limit
        THEN LET bus == IF 2 * Len(result.busUsages) > limit
                        THEN LastOf(result.busUsages, limit \div 2)
                        ELSE result.busUsages
                 remainingEdges == limit - Len(bus)
                 decls == IF remainingEdges > 0
                             /\ Len(result.handlerDeclarations) > remainingEdges
                          THEN LastOf(result.handlerDeclarations, remainingEdges)
                          ELSE result.handlerDeclarations
             IN  [busUsages |-> bus, handlerDeclarations |-> decls]
        ELSE result

\* analyzer.ts, "Apply max edges limit if needed"; limit is an integer
ApplyMaxEdges(result, limit) ==
    LET totalEdges == Len(result.busUsages) + Len(result.handlerDeclarations)
    IN  IF limit # 0 /\ limit > 0 /\ totalEdges > limit
        THEN LET bus == IF 2 * Len(result.busUsages) > limit
                        THEN Slice(result.busUsages, limit \div 2)
                        ELSE result.busUsages
                 remainingEdges == limit - Len(bus)
                 decls == IF remainingEdges > 0
                             /\ Len(result.handlerDeclarations) > remainingEdges
                          THEN Slice(result.handlerDeclarations, remainingEdges)
                          ELSE result.handlerDeclarations
             IN  [busUsages |-> bus, handlerDeclarations |-> decls]
        ELSE result

\* variant: the limit applies from totalEdges = limit on
MermaidLimitAtLeast(result, limit) ==
    LET totalEdges == Len(result.busUsages) + Len(result.handlerDeclarations)
    IN  IF limit > 0 /\ totalEdges >= limit
        THEN LET bus == IF 2 * Len(result.busUsages) > limit
                        THEN Slice(result.busUsages, limit \div 2)
                        ELSE result.busUsages
                 remainingEdges == limit - Len(bus)
                 decls == IF remainingEdges > 0
                             /\ Len(result.handlerDeclarations) > remainingEdges
                          THEN Slice(result.handlerDeclarations, remainingEdges)
                          ELSE result.handlerDeclarations
             IN  [busUsages |-> bus, handlerDeclarations |-> decls]
        ELSE result

\* MermaidGenerator.generateDiagram, "Apply max edges limit if needed", on its local lists
MermaidLimit(result, limit) ==
    LET totalEdges == Len(result.busUsages) + Len(result.handlerDeclarations)
    IN  IF limit > 0 /\ totalEdges > limit
        THEN LET bus == IF 2 * Len(result.busUsages) > limit
                        THEN Slice(result.busUsages, limit \div 2)
                        ELSE result.busUsages
                 remainingEdges == limit - Len(bus)
                 decls == IF remainingEdges > 0
                             /\ Len(result.handlerDeclarations) > remainingEdges
                          THEN Slice(result.handlerDeclarations, remainingEdges)
                          ELSE result.handlerDeclarations
             IN  [busUsages |-> bus, handlerDeclarations |-> decls]
        ELSE result

\* createDiagramGenerator: type.toLowerCase() selects the generator, Null: it throws
createDiagramGenerator(type) ==
    IF toLowerCase(Spelling(type)) = Spelling("mermaid") THEN "MermaidGenerator" ELSE Null

-----------------------------------------------------------------------------
(* architecture-analyzer/index.ts.  A Set is the sequence of its members in *)
(* insertion order; a Map is the sequence of its [key, value] entries in    *)
(* insertion order.                                                         *)

SetAdd(set, x) == IF x \in Range(set) THEN set ELSE Append(set, x)

MapHas(map, k) == \E i \in DOMAIN map : map[i].key = k

MapGet(map, k) == map[CHOOSE i \in DOMAIN map : map[i].key = k].value

MapSet(map, k, v) ==
    IF MapHas(map, k)
    THEN [i \in DOMAIN map |-> IF map[i].key = k THEN [key |-> k, value |-> v] ELSE map[i]]
    ELSE Append(map, [key |-> k, value |-> v])

MapKeys(map) == [i \in DOMAIN map |-> map[i].key]

\* edges.forEach(e => set.add(e.className))
RECURSIVE CollectClasses(_, _)
CollectClasses(edges, set) ==
    IF edges = <<>> THEN set
    ELSE CollectClasses(Tail(edges), SetAdd(set, Head(edges).className))

\* edges.forEach(e => map.set(e.className, (map.get(e.className) || 0) + 1))
RECURSIVE CountClasses(_, _)
CountClasses(edges, map) ==
    IF edges = <<>> THEN map
    ELSE LET c == Head(edges).className
             count == IF MapHas(map, c) THEN MapGet(map, c) ELSE 0
         IN  CountClasses(Tail(edges), MapSet(map, c, count + 1))

\* variant: a class name is listed once per event type
RECURSIVE GroupByEventDistinct(_, _)
GroupByEventDistinct(edges, map) ==
    IF edges = <<>> THEN map
    ELSE LET e == Head(edges).eventType
             list == IF MapHas(map, e) THEN MapGet(map, e) ELSE <<>>
         IN  GroupByEventDistinct(Tail(edges),
                                  MapSet(map, e, SetAdd(list, Head(edges).className)))

\* edges.forEach(e => { if (!map.has(e.eventType)) map.set(e.eventType, []);
\*                      map.get(e.eventType)?.push(e.className) })
RECURSIVE GroupByEvent(_, _)
GroupByEvent(edges, map) ==
    IF edges = <<>> THEN map
    ELSE LET e == Head(edges).eventType
             list == IF MapHas(map, e) THEN MapGet(map, e) ELSE <<>>
         IN  GroupByEvent(Tail(edges), MapSet(map, e, Append(list, Head(edges).className)))

\* variant: an event type is counted once per edge
RECURSIVE CollectEventsAll(_, _)
CollectEventsAll(edges, set) ==
    IF edges = <<>> THEN set
    ELSE CollectEventsAll(Tail(edges), Append(set, Head(edges).eventType))

\* edges.forEach(e => allEventTypes.add(e.eventType))
RECURSIVE CollectEvents(_, _)
CollectEvents(edges, set) ==
    IF edges = <<>> THEN set
    ELSE CollectEvents(Tail(edges), SetAdd(set, Head(edges).eventType))

RECURSIVE SumCounts(_)
SumCounts(map) == IF map = <<>> THEN 0 ELSE Head(map).value + SumCounts(Tail(map))

busUsersOf(result) == CollectClasses(result.busUsages, <<>>)

handlerClassesOf(result) == CollectClasses(result.handlerDeclarations, <<>>)

\* variant: every bus user counts as dual-role
dualRoleClassesAsProducers(result) == busUsersOf(result)

dualRoleClassesOf(result) ==
    LET handlerClasses == handlerClassesOf(result)
        IsHandler(className) == className \in Range(handlerClasses)
    IN  SelectSeq(busUsersOf(result), IsHandler)

classCouplingCountOf(result) ==
    CountClasses(result.handlerDeclarations, CountClasses(result.busUsages, <<>>))

CouplingThreshold == 5

\* variant: the threshold itself counts as high coupling
IsHighCouplingAtLeast(entry) == entry.value >= CouplingThreshold

IsHighCoupling(entry) == entry.value > CouplingThreshold

highCouplingClassesOf(result) ==
    LET high == SelectSeq(classCouplingCountOf(result), IsHighCoupling)
    IN  [i \in DOMAIN high |-> [className |-> high[i].key, connections |-> high[i].value]]

eventEmittersOf(result) == GroupByEvent(result.busUsages, <<>>)

eventHandlersOf(result) == GroupByEvent(result.handlerDeclarations, <<>>)

\* the keys of map `from` that map `other` lacks or maps to an empty list
MissingIn(from, other) ==
    LET Missing(entry) == ~MapHas(other, entry.key) \/ Len(MapGet(other, entry.key)) = 0
    IN  MapKeys(SelectSeq(from, Missing))

\* the handler kind that serves a bus kind
HandlerKindOf(busType) ==
    CASE busType = "CommandBus" -> "CommandHandler"
      [] busType = "QueryBus" -> "QueryHandler"
      [] busType = "EventBus" -> "EventsHandler"

\* variant: an event counts as handled only by a handler of the kind of its bus
unhandledEventsByKind(result) ==
    LET Unserved(entry) ==
            \E i \in DOMAIN result.busUsages :
                /\ result.busUsages[i].eventType = entry.key
                /\ ~\E j \in DOMAIN result.handlerDeclarations :
                       /\ result.handlerDeclarations[j].eventType = entry.key
                       /\ result.handlerDeclarations[j].handlerType
                            = HandlerKindOf(result.busUsages[i].busType)
    IN  MapKeys(SelectSeq(GroupByEvent(result.busUsages, <<>>), Unserved))

unhandledEventsOf(result) == MissingIn(eventEmittersOf(result), eventHandlersOf(result))

\* variant: every handled event type counts as an orphan handler
orphanHandlersAll(result) == MapKeys(GroupByEvent(result.handlerDeclarations, <<>>))

orphanHandlersOf(result) == MissingIn(eventHandlersOf(result), eventEmittersOf(result))

\* a JavaScript number that is a quotient of two integers, kept exact: num / den
Quotient(n, d) == [num |-> n, den |-> d]

\* variant: the average is rounded down to an integer
averageConnectionsRounded(result) ==
    LET coupling == classCouplingCountOf(result)
        totalConnections == SumCounts(coupling)
        classCount == Len(coupling)
    IN  IF classCount > 0 THEN Quotient(totalConnections \div classCount, 1)
        ELSE Quotient(0, 1)

averageConnectionsOf(result) ==
    LET coupling == classCouplingCountOf(result)
        totalConnections == SumCounts(coupling)
        classCount == Len(coupling)
    IN  IF classCount > 0 THEN Quotient(totalConnections, classCount) ELSE Quotient(0, 1)

Issue(type, severity, elements, context) ==
    [type |-> type, severity |-> severity, elements |-> elements, context |-> context]

issuesOf(result) ==
    LET dualRoleClasses == dualRoleClassesOf(result)
        highCouplingClasses == highCouplingClassesOf(result)
        unhandledEvents == unhandledEventsOf(result)
        orphanHandlers == orphanHandlersOf(result)
        eventEmitters == eventEmittersOf(result)
        eventHandlers == eventHandlersOf(result)
    IN  (IF Len(dualRoleClasses) > 0
         THEN <<Issue("SingleResponsibilityViolation", WARNING, dualRoleClasses, <<>>)>>
         ELSE <<>>)
        \o
        (IF Len(highCouplingClasses) > 0
         THEN <<Issue("HighCoupling", WARNING,
                      [i \in DOMAIN highCouplingClasses |-> highCouplingClasses[i].className],
                      highCouplingClasses)>>
         ELSE <<>>)
        \o
        (IF Len(unhandledEvents) > 0
         THEN <<Issue("UnhandledEvents", ERROR, unhandledEvents,
                      [i \in DOMAIN unhandledEvents |->
                          [eventType |-> unhandledEvents[i],
                           producers |-> IF MapHas(eventEmitters, unhandledEvents[i])
                                         THEN MapGet(eventEmitters, unhandledEvents[i])
                                         ELSE <<>>]])>>
         ELSE <<>>)
        \o
        (IF Len(orphanHandlers) > 0
         THEN <<Issue("OrphanHandlers", WARNING, orphanHandlers,
                      [i \in DOMAIN orphanHandlers |->
                          [eventType |-> orphanHandlers[i],
                           handlers |-> IF MapHas(eventHandlers, orphanHandlers[i])
                                        THEN MapGet(eventHandlers, orphanHandlers[i])
                                        ELSE <<>>]])>>
         ELSE <<>>)

metricsOf(result) ==
    [totalClasses |-> Len(classCouplingCountOf(result)),
     totalEvents |-> Len(CollectEvents(result.handlerDeclarations,
                                       CollectEvents(result.busUsages, <<>>))),
     eventProducers |-> Len(busUsersOf(result)),
     eventConsumers |-> Len(handlerClassesOf(result)),
     dualRoleClasses |-> Len(dualRoleClassesOf(result)),
     orphanEvents |-> Len(unhandledEventsOf(result)),
     orphanHandlers |-> Len(orphanHandlersOf(result)),
     averageConnections |-> averageConnectionsOf(result)]

analyzeArchitecture(result) == [issues |-> issuesOf(result), metrics |-> metricsOf(result)]

-----------------------------------------------------------------------------
(* Source units of the runs over files *)

\* class OrderService { placeOrder() { this.commandBus.execute(new CreateOrderCommand()) } }
OrderServiceUnit ==
    <<ClassDecl(0, "OrderService", <<>>),
      MethodDecl(1, "placeOrder", TRUE),
      CallExpr(2, PropertyAccess("this", "commandBus"), "execute", <<>>,
               <<NewExpr("CreateOrderCommand")>>)>>

\* @CommandHandler(CreateOrderCommand) class OrderHandler {
\*   execute() { this.eventBus.publish(new OrderCreated()) } }
OrderHandlerUnit ==
    <<ClassDecl(0, "OrderHandler",
                <<Decorator(Identifier("CommandHandler"), TRUE, <<>>,
                            <<Identifier("CreateOrderCommand")>>)>>),
      MethodDecl(1, "execute", TRUE),
      CallExpr(2, PropertyAccess("this", "eventBus"), "publish", <<>>,
               <<NewExpr("OrderCreated")>>)>>

\* @CommandHandler<ShipOrderCommand>() class OrderHandler {}
\* eventBus.publish(OrderShipped); service.execute(job)
ShipHandlerUnit ==
    <<ClassDecl(0, "OrderHandler",
                <<Decorator(Identifier("CommandHandler"), TRUE, <<"ShipOrderCommand">>, <<>>)>>),
      CallExpr(0, Identifier("eventBus"), "publish", <<>>, <<Identifier("OrderShipped")>>),
      CallExpr(0, Identifier("service"), "execute", <<>>, <<Identifier("job")>>)>>

\* @EventsHandler(OrderShipped) class OrderSaga {
\*   handle() { this.commandBus.execute(new ShipOrderCommand());
\*              this.queryBus.execute<GetOrderQuery>(query) } }
OrderSagaUnit ==
    <<ClassDecl(0, "OrderSaga",
                <<Decorator(Identifier("EventsHandler"), TRUE, <<>>,
                            <<Identifier("OrderShipped")>>)>>),
      MethodDecl(1, "handle", TRUE),
      CallExpr(2, PropertyAccess("this", "commandBus"), "execute", <<>>,
               <<NewExpr("ShipOrderCommand")>>),
      CallExpr(2, PropertyAccess("this", "queryBus"), "execute", <<"GetOrderQuery">>,
               <<Identifier("query")>>)>>

\* @Injectable() class Outer { @QueryHandler(GetOrderQuery) class Inner {} }  (Inner nested in Outer)
NestedUnit ==
    <<ClassDecl(0, "Outer", <<Decorator(Identifier("Injectable"), TRUE, <<>>, <<>>)>>),
      ClassDecl(1, "Inner",
                <<Decorator(Identifier("QueryHandler"), TRUE, <<>>,
                            <<Identifier("GetOrderQuery")>>)>>)>>

UnitCatalogue ==
    {OrderServiceUnit, OrderHandlerUnit, ShipHandlerUnit, OrderSagaUnit, NestedUnit}

FormatLists == {<<"mermaid", "html">>, <<"svg", "Mermaid">>}

Paths == <<"a.ts", "b.ts", "c.ts", "d.ts">>

-----------------------------------------------------------------------------
(* The state machine *)

Units == DOMAIN files

analysisResult == [busUsages |-> busUsages, handlerDeclarations |-> handlerDeclarations]

EmptyResult == [busUsages |-> <<>>, handlerDeclarations |-> <<>>]

NoAnalysis == [issues |-> <<>>, metrics |-> [none |-> TRUE]]

\* the state after the constructor, for given units and options
Constructed(units, limit, formats) ==
    /\ files = units
    /\ maxEdges = limit
    /\ diagramFormat = formats
    /\ pc = "start"
    /\ status = [u \in DOMAIN units |-> "idle"]
    /\ running = 0
    /\ pos = 0
    /\ busUsages = <<>>
    /\ handlerDeclarations = <<>>
    /\ collected = EmptyResult
    /\ architectureAnalysis = NoAnalysis
    /\ diagrams = <<>>
    /\ formatIdx = 1
    /\ errors = <<>>

Init ==
    \E units \in [1..NumFiles -> UnitCatalogue], limit \in 0..MaxBudget,
       formats \in FormatLists :
        Constructed(units, limit, formats)

\* analyze up to Promise.all: every analyzeFile task runs to its await of fs.readFile
StartAnalyze ==
    /\ pc = "start"
    /\ pc' = "extract"
    /\ status' = [u \in Units |-> "reading"]
    /\ UNCHANGED <<files, maxEdges, diagramFormat, running, pos, busUsages,
                   handlerDeclarations, collected, architectureAnalysis, diagrams,
                   formatIdx, errors>>

\* variant: a task that resumes takes over from the traversal on the stack, which starts
\* again later
ReadFileDonePreempting(u) ==
    /\ pc = "extract"
    /\ status[u] = "reading"
    /\ status' = [v \in Units |-> IF v = u THEN "traversing"
                                  ELSE IF v = running THEN "reading"
                                  ELSE status[v]]
    /\ running' = u
    /\ pos' = 1
    /\ UNCHANGED <<files, maxEdges, diagramFormat, pc, busUsages, handlerDeclarations,
                   collected, architectureAnalysis, diagrams, formatIdx, errors>>

\* fs.readFile of unit u resolves; the task parses the text and enters visitNode
ReadFileDone(u) ==
    /\ pc = "extract"
    /\ status[u] = "reading"
    /\ running = 0
    /\ status' = [status EXCEPT ![u] = "traversing"]
    /\ running' = u
    /\ pos' = 1
    /\ UNCHANGED <<files, maxEdges, diagramFormat, pc, busUsages, handlerDeclarations,
                   collected, architectureAnalysis, diagrams, formatIdx, errors>>

\* fs.readFile of unit u rejects; analyzeFile catches and logs
ReadFileFail(u) ==
    /\ pc = "extract"
    /\ status[u] = "reading"
    /\ running = 0
    /\ status' = [status EXCEPT ![u] = "failed"]
    /\ errors' = Append(errors, [what |-> "analyzeFile", of |-> Paths[u]])
    /\ UNCHANGED <<files, maxEdges, diagramFormat, pc, running, pos, busUsages,
                   handlerDeclarations, collected, architectureAnalysis, diagrams,
                   formatIdx>>

\* one visitNode call of the traversal on the stack
VisitNode ==
    /\ running # 0
    /\ pos <= Len(files[running])
    /\ LET after == visitNode(files[running], pos, Paths[running], analysisResult)
       IN  /\ busUsages' = after.busUsages
           /\ handlerDeclarations' = after.handlerDeclarations
    /\ pos' = pos + 1
    /\ UNCHANGED <<files, maxEdges, diagramFormat, pc, status, running, collected,
                   architectureAnalysis, diagrams, formatIdx, errors>>

\* one visitNode call on a named class declaration whose structured decorator
\* introspection throws; processHandlerDeclaration catches and writes a console.log
\* note (not an error), the traversal goes on
VisitNodeCaught ==
    /\ running # 0
    /\ pos <= Len(files[running])
    /\ files[running][pos].kind = "ClassDeclaration"
    /\ files[running][pos].name # ""
    /\ \E failAt \in 1..Max(1, Len(files[running][pos].decorators)) :
          handlerDeclarations' =
              processHandlerDeclarationCaught(files[running], pos, Paths[running],
                                              handlerDeclarations, failAt)
    /\ pos' = pos + 1
    /\ UNCHANGED <<files, maxEdges, diagramFormat, pc, status, running, busUsages,
                   collected, architectureAnalysis, diagrams, formatIdx, errors>>

\* the traversal returns and the analyzeFile task of the unit resolves
FinishFile ==
    /\ running # 0
    /\ pos > Len(files[running])
    /\ status' = [status EXCEPT ![running] = "done"]
    /\ running' = 0
    /\ pos' = 0
    /\ UNCHANGED <<files, maxEdges, diagramFormat, pc, busUsages, handlerDeclarations,
                   collected, architectureAnalysis, diagrams, formatIdx, errors>>

\* createSourceFile or a visitNode call of the traversal on the stack throws; analyzeFile
\* catches and logs, the edges the traversal has pushed stay in the aggregate
TraversalFail ==
    /\ running # 0
    /\ pos <= Len(files[running])
    /\ status' = [status EXCEPT ![running] = "failed"]
    /\ running' = 0
    /\ pos' = 0
    /\ errors' = Append(errors, [what |-> "analyzeFile", of |-> Paths[running]])
    /\ UNCHANGED <<files, maxEdges, diagramFormat, pc, busUsages, handlerDeclarations,
                   collected, architectureAnalysis, diagrams, formatIdx>>

\* variant: the limit keeps the latest edges of the aggregate
TruncateKeepingLatest ==
    /\ pc = "extract"
    /\ \A u \in Units : status[u] \in {"done", "failed"}
    /\ collected' = analysisResult
    /\ LET limited == ApplyMaxEdgesTail(analysisResult, maxEdges)
       IN  /\ busUsages' = limited.busUsages
           /\ handlerDeclarations' = limited.handlerDeclarations
    /\ pc' = "analyze"
    /\ UNCHANGED <<files, maxEdges, diagramFormat, status, running, pos,
                   architectureAnalysis, diagrams, formatIdx, errors>>

\* Promise.all has resolved: the max edges limit is applied to the aggregate
Truncate ==
    /\ pc = "extract"
    /\ \A u \in Units : status[u] \in {"done", "failed"}
    /\ collected' = analysisResult
    /\ LET limited == ApplyMaxEdges(analysisResult, maxEdges)
       IN  /\ busUsages' = limited.busUsages
           /\ handlerDeclarations' = limited.handlerDeclarations
    /\ pc' = "analyze"
    /\ UNCHANGED <<files, maxEdges, diagramFormat, status, running, pos,
                   architectureAnalysis, diagrams, formatIdx, errors>>

\* variant: the architecture is analysed as it was before the limit was applied
AnalyzeArchitectureCollected ==
    /\ pc = "analyze"
    /\ architectureAnalysis' = analyzeArchitecture(collected)
    /\ pc' = "diagrams"
    /\ UNCHANGED <<files, maxEdges, diagramFormat, status, running, pos, busUsages,
                   handlerDeclarations, collected, diagrams, formatIdx, errors>>

AnalyzeArchitecture ==
    /\ pc = "analyze"
    /\ architectureAnalysis' = analyzeArchitecture(analysisResult)
    /\ pc' = "diagrams"
    /\ UNCHANGED <<files, maxEdges, diagramFormat, status, running, pos, busUsages,
                   handlerDeclarations, collected, diagrams, formatIdx, errors>>

\* one turn of the loop over options.diagramFormat
GenerateDiagram ==
    /\ pc = "diagrams"
    /\ formatIdx <= Len(diagramFormat)
    /\ LET format == diagramFormat[formatIdx]
       IN  IF createDiagramGenerator(format) = Null
           THEN /\ errors' = Append(errors, [what |-> "diagram", of |-> format])
                /\ UNCHANGED diagrams
           ELSE /\ diagrams' = Append(diagrams, MermaidLimit(analysisResult, maxEdges))
                /\ UNCHANGED errors
    /\ formatIdx' = formatIdx + 1
    /\ UNCHANGED <<files, maxEdges, diagramFormat, pc, status, running, pos, busUsages,
                   handlerDeclarations, collected, architectureAnalysis>>

\* analyze returns { result, architectureAnalysis, outputFiles }
Return ==
    /\ pc = "diagrams"
    /\ formatIdx > Len(diagramFormat)
    /\ pc' = "done"
    /\ UNCHANGED <<files, maxEdges, diagramFormat, status, running, pos, busUsages,
                   handlerDeclarations, collected, architectureAnalysis, diagrams,
                   formatIdx, errors>>

Next ==
    \/ StartAnalyze
    \/ \E u \in Units : ReadFileDone(u)
    \/ \E u \in Units : ReadFileFail(u)
    \/ VisitNode
    \/ FinishFile
    \/ TraversalFail
    \/ Truncate
    \/ AnalyzeArchitecture
    \/ GenerateDiagram
    \/ Return

Spec == Init /\ [][Next]_vars

-----------------------------------------------------------------------------
(* Runs over one unit that holds a generated class declaration *)

DecoratorPool ==
    {Decorator(Identifier("CommandHandler"), TRUE, <<>>, <<Identifier("Foo")>>),
     Decorator(Identifier("CommandHandler"), TRUE, <<>>, <<NewExpr("Foo")>>),
     Decorator(Identifier("EventsHandler"), TRUE, <<>>,
               <<PropertyAccess("Mod", "Foo"), Identifier("Bar")>>),
     Decorator(Identifier("EventsHandler"), TRUE, <<>>, <<StringLiteral("foo")>>),
     Decorator(Identifier("QueryHandler"), TRUE, <<"Foo">>, <<Identifier("Bar")>>),
     Decorator(Identifier("QueryHandler"), TRUE, <<>>, <<>>),
     Decorator(Identifier("QueryHandler"), FALSE, <<>>, <<>>),
     Decorator(PropertyAccess("cqrs", "CommandHandler"), TRUE, <<>>, <<Identifier("Foo")>>),
     Decorator(Identifier("Injectable"), TRUE, <<>>, <<>>)}

\* describe = '@QueryHandler(Baz)'
HandlerLikeText == <<"'", "@", "QueryHandler", "(", "Baz", ")", "'">>

UnitShapes ==
    {"alone", "anonymous", "text in body", "call in body", "same-named sibling before",
     "nested class"}

\* the unit of a shape around a class with decorators decs; d decorates the other class
GeneratedUnit(shape, decs, d) ==
    CASE shape = "alone" -> <<ClassDecl(0, "A", decs)>>
      [] shape = "anonymous" -> <<ClassDecl(0, "", decs)>>
      [] shape = "text in body" -> <<ClassDecl(0, "A", decs), OtherNode(1, HandlerLikeText)>>
      [] shape = "call in body" ->
            <<ClassDecl(0, "A", decs),
              CallExpr(1, Identifier("eventBus"), "publish", <<>>, <<StringLiteral("foo")>>)>>
      [] shape = "same-named sibling before" ->
            <<ClassDecl(0, "A", <<d>>), ClassDecl(0, "A", decs)>>
      [] shape = "nested class" -> <<ClassDecl(0, "A", decs), ClassDecl(1, "B", <<d>>)>>

UsesOtherDecorator(shape) == shape \in {"same-named sibling before", "nested class"}

InitClass ==
    \E decs \in SeqsUpTo(DecoratorPool, MaxDecorators), shape \in UnitShapes,
       d \in DecoratorPool :
        /\ UsesOtherDecorator(shape) \/ d = Decorator(Identifier("Injectable"), TRUE, <<>>, <<>>)
        /\ Constructed(<<GeneratedUnit(shape, decs, d)>>, 0, <<"mermaid", "html">>)

SpecClass == InitClass /\ [][Next]_vars

\* the same runs on a host where the structured decorator introspection may throw
NextDegraded == Next \/ VisitNodeCaught

SpecDegraded == InitClass /\ [][NextDegraded]_vars

-----------------------------------------------------------------------------
(* Runs over one unit that holds a generated call expression *)

ReceiverNames ==
    {"commandBus", "queryBus", "eventBus", "QueryBus", "eventQueryBus", "commandQueryBus",
     "commandService", "busyEventLog", "bus", "service"}

\* name.m(), this.name.m(), commandBus.inner.m(), this.m(), eventBus().m(), m()
CallReceivers ==
    {Identifier(n) : n \in ReceiverNames}
    \cup {PropertyAccess("this", n) : n \in ReceiverNames}
    \cup {PropertyAccess("commandBus", "inner"), ThisExpr, CallResult("eventBus"), NoExpr}

MethodNames == {"execute", "publish", "dispatch", "executeAll", "send"}

TypeArgLists == {<<>>, <<"T1">>, <<"T1", "T2">>}

ArgLists ==
    {<<>>,
     <<NewExpr("Foo")>>,
     <<Identifier("foo")>>,
     <<PropertyAccess("Mod", "Foo")>>,
     <<NewQualified("Mod", "Foo")>>,
     <<StringLiteral("foo")>>,
     <<StringLiteral("foo"), Identifier("Bar")>>,
     <<Identifier("foo"), NewExpr("Bar")>>}

CallShapes ==
    {"top level", "in method", "in computed method", "in method in method",
     "in computed method in method"}

\* the unit of a shape around the call receiver.name<targs>(args)
GeneratedCall(shape, receiver, name, targs, args) ==
    CASE shape = "top level" -> <<CallExpr(0, receiver, name, targs, args)>>
      [] shape = "in method" ->
            <<ClassDecl(0, "A", <<>>), MethodDecl(1, "run", TRUE),
              CallExpr(2, receiver, name, targs, args)>>
      [] shape = "in computed method" ->
            <<ClassDecl(0, "A", <<>>), MethodDecl(1, "", FALSE),
              CallExpr(2, receiver, name, targs, args)>>
      [] shape = "in method in method" ->
            <<ClassDecl(0, "A", <<>>), MethodDecl(1, "outer", TRUE),
              MethodDecl(2, "inner", TRUE), CallExpr(3, receiver, name, targs, args)>>
      [] shape = "in computed method in method" ->
            <<ClassDecl(0, "A", <<>>), MethodDecl(1, "outer", TRUE),
              MethodDecl(2, "", FALSE), CallExpr(3, receiver, name, targs, args)>>

InitCall ==
    \E shape \in CallShapes, receiver \in CallReceivers, name \in MethodNames,
       targs \in TypeArgLists, args \in ArgLists :
        Constructed(<<GeneratedCall(shape, receiver, name, targs, args)>>, 0,
                    <<"mermaid", "html">>)

SpecCall == InitCall /\ [][Next]_vars

\* runs over one unit that holds a generated class declaration or a generated call
InitUnit == InitClass \/ InitCall

SpecUnit == InitUnit /\ [][Next]_vars

-----------------------------------------------------------------------------
(* Runs in which the extraction is abstracted: the analyzeFile tasks append    *)
(* edges drawn from a small alphabet, then Promise.all resolves and analyze  *)
(* goes on as in the code                                                    *)

BusUsage(className, busType, eventType) ==
    [sourceFile |-> "a.ts", className |-> className, methodName |-> Null,
     busType |-> busType, eventType |-> eventType, position |-> 1]

ArchBusEdges ==
    {BusUsage("A", "CommandBus", "E1"), BusUsage("A", "EventBus", "E2"),
     BusUsage("B", "CommandBus", "E1"), BusUsage("B", "EventBus", "E2")}

ArchHandlerEdges ==
    {HandlerEdge("a.ts", "A", "QueryHandler", "E1", 1),
     HandlerEdge("a.ts", "A", "EventsHandler", "E2", 1),
     HandlerEdge("a.ts", "B", "CommandHandler", "E1", 1),
     HandlerEdge("a.ts", "B", "EventsHandler", "E2", 1)}

TruncBusEdges == {BusUsage("A", "CommandBus", "E1"), BusUsage("B", "EventBus", "E2")}

TruncHandlerEdges ==
    {HandlerEdge("a.ts", "A", "EventsHandler", "E2", 1),
     HandlerEdge("a.ts", "B", "CommandHandler", "E1", 1)}

\* result.busUsages.push(...) of some traversal: one of `edges` is appended, up to `most`
PushBusUsage(edges, most) ==
    /\ pc = "extract"
    /\ Len(busUsages) < most
    /\ \E e \in edges : busUsages' = Append(busUsages, e)
    /\ UNCHANGED <<files, maxEdges, diagramFormat, pc, status, running, pos,
                   handlerDeclarations, collected, architectureAnalysis, diagrams,
                   formatIdx, errors>>

\* result.handlerDeclarations.push(...) of some traversal
PushHandlerDeclaration(edges, most) ==
    /\ pc = "extract"
    /\ Len(handlerDeclarations) < most
    /\ \E e \in edges : handlerDeclarations' = Append(handlerDeclarations, e)
    /\ UNCHANGED <<files, maxEdges, diagramFormat, pc, status, running, pos, busUsages,
                   collected, architectureAnalysis, diagrams, formatIdx, errors>>

\* analyze is waiting for Promise.all with an empty aggregate
Extracting(limit, formats) ==
    /\ files = <<>>
    /\ maxEdges = limit
    /\ diagramFormat = formats
    /\ pc = "extract"
    /\ status = <<>>
    /\ running = 0
    /\ pos = 0
    /\ busUsages = <<>>
    /\ handlerDeclarations = <<>>
    /\ collected = EmptyResult
    /\ architectureAnalysis = NoAnalysis
    /\ diagrams = <<>>
    /\ formatIdx = 1
    /\ errors = <<>>

InitTruncate ==
    \E limit \in -1..(MaxBusT + MaxHandlersT + 1) : Extracting(limit, <<"mermaid">>)

NextTruncate ==
    \/ PushBusUsage(TruncBusEdges, MaxBusT)
    \/ PushHandlerDeclaration(TruncHandlerEdges, MaxHandlersT)
    \/ Truncate
    \/ AnalyzeArchitecture
    \/ GenerateDiagram
    \/ Return

SpecTruncate == InitTruncate /\ [][NextTruncate]_vars

InitArchitecture == Extracting(0, <<"mermaid">>)

NextArchitecture ==
    \/ PushBusUsage(ArchBusEdges, MaxBus)
    \/ PushHandlerDeclaration(ArchHandlerEdges, MaxHandlers)
    \/ Truncate
    \/ AnalyzeArchitecture
    \/ GenerateDiagram
    \/ Return

SpecArchitecture == InitArchitecture /\ [][NextArchitecture]_vars

-----------------------------------------------------------------------------
(* Properties of processHandlerDeclaration *)

\* the handler kinds Path A (the regex over the class text) detects for class node i
PathAKinds(nodes, i) ==
    {m.handlerType : m \in Range(decoratorMatches(ClassText(nodes, i), 1))}

\* the handler kinds Path B (the structured decorators) detects for class node i
PathBKinds(nodes, i) ==
    {d.callee.name : d \in {x \in Range(nodes[i].decorators) : IsHandlerDecorator(x)}}

\* the event types Path A infers for kind K on class node i
PathAEventTypes(nodes, i, K) ==
    {classNameMatch(m.argsText) :
        m \in {x \in Range(decoratorMatches(ClassText(nodes, i), 1)) : x.handlerType = K}}

\* the event types Path B infers for kind K on class node i
PathBEventTypes(nodes, i, K) ==
    {extractTypeArgument(d) :
        d \in {x \in Range(nodes[i].decorators) :
                   IsHandlerDecorator(x) /\ x.callee.name = K}}

\* the edges of decls for a class name and a handler kind, in order
EdgesFor(decls, className, K) ==
    LET Hit(h) == h.className = className /\ h.handlerType = K
    IN  SelectSeq(decls, Hit)

\* the node the next VisitNode step handles is a named class declaration
AtNamedClass ==
    /\ running # 0
    /\ pos <= Len(files[running])
    /\ files[running][pos].kind = "ClassDeclaration"
    /\ files[running][pos].name # ""

\* C1 as stated: for every named class declaration and every handler kind K that both
\* Path A and Path B detect for it, after processHandlerDeclaration the aggregate holds
\* exactly one edge with (className, K), and its event type is the one Path A inferred.
C1_ExactlyOneEdge ==
    [][(AtNamedClass /\ pos' = pos + 1) =>
        \A K \in PathAKinds(files[running], pos) \cap PathBKinds(files[running], pos) :
            LET found == EdgesFor(handlerDeclarations', files[running][pos].name, K)
            IN  /\ Len(found) = 1
                /\ found[1].eventType \in PathAEventTypes(files[running], pos, K)]_vars

\* C1 amended: for every named class declaration and every handler kind K that both
\* Path A and Path B detect for it, processHandlerDeclaration removes nothing and appends
\* for (className, K) exactly Path A's edges, one per lexical match of K in the class text
\* and in match order, each with the event type Path A inferred (no Path B edge); so the
\* aggregate then holds exactly one edge for the pair when the class text holds one match
\* of K and the aggregate held no edge for the pair before.
C1_PathAWins ==
    [][(AtNamedClass /\ pos' = pos + 1) =>
        \A K \in PathAKinds(files[running], pos) \cap PathBKinds(files[running], pos) :
            LET nodes == files[running]
                name == nodes[pos].name
                added == SubSeq(handlerDeclarations', Len(handlerDeclarations) + 1,
                                Len(handlerDeclarations'))
                matches == LET OfKind(m) == m.handlerType = K
                           IN  SelectSeq(decoratorMatches(ClassText(nodes, pos), 1), OfKind)
                found == EdgesFor(added, name, K)
            IN  /\ IsPrefix(handlerDeclarations, handlerDeclarations')
                /\ Len(found) = Len(matches)
                /\ \A k \in DOMAIN found :
                      /\ found[k].eventType = classNameMatch(matches[k].argsText)
                      /\ found[k].sourceFile = Paths[running]
                /\ (Len(matches) = 1 /\ EdgesFor(handlerDeclarations, name, K) = <<>>)
                      => Len(EdgesFor(handlerDeclarations', name, K)) = 1]_vars

\* a class whose single handler decorator both paths detect, with different event types,
\* has been processed and the aggregate holds Path A's edge alone
C1_Witness ==
    /\ running # 0
    /\ pos = 2
    /\ files[running][1].kind = "ClassDeclaration"
    /\ files[running][1].name # ""
    /\ \E K \in PathAKinds(files[running], 1) \cap PathBKinds(files[running], 1) :
          /\ PathAEventTypes(files[running], 1, K) \cap PathBEventTypes(files[running], 1, K) = {}
          /\ Len(handlerDeclarations) = 1
          /\ handlerDeclarations[1].handlerType = K
          /\ handlerDeclarations[1].eventType \in PathAEventTypes(files[running], 1, K)

-----------------------------------------------------------------------------
(* Properties of the edge budget *)

\* the truncation step of analyze has run
Truncated == pc \in {"analyze", "diagrams", "done"}

\* C2: with a positive maxEdges, after the truncation step of analyze the bus usages and
\* the handler edges together are at most maxEdges.
C2_BudgetIsCeiling ==
    (Truncated /\ maxEdges > 0) =>
        Len(busUsages) + Len(handlerDeclarations) <= maxEdges

\* budget 3 with 4 bus usages and 2 handler edges has left 1 bus usage and 2 handler edges
C2_Witness ==
    /\ Truncated
    /\ maxEdges = 3
    /\ Len(collected.busUsages) = 4
    /\ Len(collected.handlerDeclarations) = 2
    /\ Len(busUsages) = 1
    /\ Len(handlerDeclarations) = 2

\* C3: with B bus usages, H handler edges and budget M: if M is not positive or B + H <= M
\* both lists are unchanged; otherwise the bus usages become their prefix of length
\* floor(M / 2) when B > M / 2, and with R = M - (resulting bus count) the handler edges
\* become their prefix of length R when R > 0 and H > R; the results are prefixes of the
\* inputs.
C3_TruncationRule ==
    Truncated =>
        LET B == Len(collected.busUsages)
            H == Len(collected.handlerDeclarations)
            M == maxEdges
            R == M - Len(busUsages)
        IN  /\ IsPrefix(busUsages, collected.busUsages)
            /\ IsPrefix(handlerDeclarations, collected.handlerDeclarations)
            /\ (M <= 0 \/ B + H <= M) =>
                  /\ Len(busUsages) = B
                  /\ Len(handlerDeclarations) = H
            /\ (M > 0 /\ B + H > M) =>
                  /\ Len(busUsages) = (IF 2 * B > M THEN M \div 2 ELSE B)
                  /\ Len(handlerDeclarations) = (IF R > 0 /\ H > R THEN R ELSE H)

\* both lists have been cut, and the elements kept are not all alike
C3_Witness ==
    /\ Truncated
    /\ 0 < Len(busUsages) /\ Len(busUsages) < Len(collected.busUsages)
    /\ 1 < Len(handlerDeclarations)
    /\ Len(handlerDeclarations) < Len(collected.handlerDeclarations)
    /\ collected.busUsages[1] # collected.busUsages[Len(collected.busUsages)]
    /\ handlerDeclarations[1] # handlerDeclarations[2]

\* C4: truncating an already truncated aggregate again with the same budget changes
\* nothing; every diagram MermaidGenerator.generateDiagram renders with the same maxEdges
\* is rendered from exactly the edge lists analyze left.
C4_TruncationIdempotent ==
    Truncated =>
        /\ ApplyMaxEdges(analysisResult, maxEdges) = analysisResult
        /\ \A k \in DOMAIN diagrams : diagrams[k] = analysisResult

\* a diagram has been rendered from an aggregate that analyze had cut
C4_Witness ==
    /\ pc = "done"
    /\ Len(diagrams) = 1
    /\ collected # analysisResult
    /\ Len(busUsages) > 0
    /\ Len(handlerDeclarations) > 0
    /\ diagrams[1] = analysisResult

-----------------------------------------------------------------------------
(* Properties of analyzeArchitecture *)

\* analyzeArchitecture has returned (the edge lists do not change afterwards)
Analyzed == pc \in {"diagrams", "done"}

\* the elements / the context of the issue of a type, empty when no such issue was emitted
IssuesOfType(type) ==
    LET OfType(issue) == issue.type = type
    IN  SelectSeq(architectureAnalysis.issues, OfType)

ElementsOf(type) ==
    IF IssuesOfType(type) = <<>> THEN <<>> ELSE IssuesOfType(type)[1].elements

ContextOf(type) ==
    IF IssuesOfType(type) = <<>> THEN <<>> ELSE IssuesOfType(type)[1].context

BusClassNames == {busUsages[i].className : i \in DOMAIN busUsages}
HandlerClassNames == {handlerDeclarations[i].className : i \in DOMAIN handlerDeclarations}
EmittedEvents == {busUsages[i].eventType : i \in DOMAIN busUsages}
HandledEvents == {handlerDeclarations[i].eventType : i \in DOMAIN handlerDeclarations}

\* the number of edges of either kind with a class name
EdgeCount(className) ==
    Cardinality({i \in DOMAIN busUsages : busUsages[i].className = className})
    + Cardinality({i \in DOMAIN handlerDeclarations :
                      handlerDeclarations[i].className = className})

\* C5: a class name is an element of the SingleResponsibilityViolation issue iff it is the
\* className of at least one bus usage and of at least one handler edge, and
\* metrics.dualRoleClasses is the number of such class names.
C5_DualRole ==
    Analyzed =>
        LET elements == ElementsOf("SingleResponsibilityViolation")
        IN  /\ Range(elements) = BusClassNames \cap HandlerClassNames
            /\ architectureAnalysis.metrics.dualRoleClasses
                 = Cardinality(BusClassNames \cap HandlerClassNames)

\* one class is dual-role and is reported; another class uses a bus only and is not
C5_Witness ==
    /\ Analyzed
    /\ ElementsOf("SingleResponsibilityViolation") = <<"B">>
    /\ "A" \in BusClassNames \ HandlerClassNames

\* C6: an event type is an element of the UnhandledEvents issue iff some bus usage has it
\* and no handler edge has it, whatever the bus and handler kinds; it is listed once.
C6_UnhandledEvents ==
    Analyzed =>
        LET elements == ElementsOf("UnhandledEvents")
        IN  /\ Range(elements) = EmittedEvents \ HandledEvents
            /\ Len(elements) = Cardinality(Range(elements))
            /\ architectureAnalysis.metrics.orphanEvents = Len(elements)

\* E2 is unhandled; E1 is sent on a command bus and handled by a query handler only, and
\* is not reported
C6_Witness ==
    /\ Analyzed
    /\ ElementsOf("UnhandledEvents") = <<"E2">>
    /\ \E i \in DOMAIN busUsages :
          busUsages[i].eventType = "E1" /\ busUsages[i].busType = "CommandBus"
    /\ \A j \in DOMAIN handlerDeclarations :
          handlerDeclarations[j].eventType = "E1"
          /\ handlerDeclarations[j].handlerType = "QueryHandler"
    /\ Len(handlerDeclarations) > 0

\* the class names of the handler edges with an event type, in edge order
HandlersOfEvent(eventType) ==
    LET Hit(h) == h.eventType = eventType
        hits == SelectSeq(handlerDeclarations, Hit)
    IN  [k \in DOMAIN hits |-> hits[k].className]

\* C7: an event type is an element of the OrphanHandlers issue iff some handler edge has
\* it and no bus usage has it; the context lists for it the class names of the handler
\* edges with that event type, in edge order, duplicates kept.
C7_OrphanHandlers ==
    Analyzed =>
        LET elements == ElementsOf("OrphanHandlers")
            context == ContextOf("OrphanHandlers")
        IN  /\ Range(elements) = HandledEvents \ EmittedEvents
            /\ Len(context) = Len(elements)
            /\ \A k \in DOMAIN elements :
                  /\ context[k].eventType = elements[k]
                  /\ context[k].handlers = HandlersOfEvent(elements[k])

\* an orphan event type whose handlers list names a class twice, after another class
C7_Witness ==
    /\ Analyzed
    /\ \E k \in DOMAIN ContextOf("OrphanHandlers") :
          ContextOf("OrphanHandlers")[k].handlers = <<"B", "A", "A">>

\* C8: no event type is both unhandled and orphan, and every event type of an edge is in
\* exactly one of: unhandled, orphan, emitted and handled.
C8_Partition ==
    Analyzed =>
        LET unhandled == Range(ElementsOf("UnhandledEvents"))
            orphan == Range(ElementsOf("OrphanHandlers"))
            both == EmittedEvents \cap HandledEvents
        IN  /\ unhandled \cap orphan = {}
            /\ unhandled \cap both = {}
            /\ orphan \cap both = {}
            /\ unhandled \cup orphan \cup both = EmittedEvents \cup HandledEvents

\* one event type is unhandled and another one is an orphan handler
C8_Witness ==
    /\ Analyzed
    /\ ElementsOf("UnhandledEvents") = <<"E1">>
    /\ ElementsOf("OrphanHandlers") = <<"E2">>

\* C9: the coupling count of a class is the number of its bus usages plus the number of
\* its handler edges; the class is in the HighCoupling issue, with connections equal to
\* that count, iff the count is greater than 5.
C9_HighCoupling ==
    Analyzed =>
        LET elements == ElementsOf("HighCoupling")
            context == ContextOf("HighCoupling")
        IN  /\ Range(elements)
                 = {c \in BusClassNames \cup HandlerClassNames : EdgeCount(c) > 5}
            /\ Len(context) = Len(elements)
            /\ \A k \in DOMAIN elements :
                  /\ context[k].className = elements[k]
                  /\ context[k].connections = EdgeCount(elements[k])

\* a class with 6 edges is reported with connections 6
C9_Witness ==
    /\ Analyzed
    /\ EdgeCount("A") = 6
    /\ ContextOf("HighCoupling") = <<[className |-> "A", connections |-> 6]>>

-----------------------------------------------------------------------------
(* Properties of the issue list and the metrics *)

IssueOrder == <<"SingleResponsibilityViolation", "HighCoupling", "UnhandledEvents",
                "OrphanHandlers">>

IssueRank(type) == CHOOSE k \in DOMAIN IssueOrder : IssueOrder[k] = type

\* the set whose members trigger the issue of a type, read off the edge lists
TriggeringSet(type) ==
    CASE type = "SingleResponsibilityViolation" -> BusClassNames \cap HandlerClassNames
      [] type = "HighCoupling" ->
            {c \in BusClassNames \cup HandlerClassNames : EdgeCount(c) > 5}
      [] type = "UnhandledEvents" -> EmittedEvents \ HandledEvents
      [] type = "OrphanHandlers" -> HandledEvents \ EmittedEvents

\* C11: the issues list holds at most one issue of each type, in the relative order
\* SingleResponsibilityViolation, HighCoupling, UnhandledEvents, OrphanHandlers; the issue
\* of a type is present iff its triggering set is non-empty, and then its elements are
\* non-empty; UnhandledEvents has severity error and the others warning; an empty
\* aggregate yields no issue.
C11_IssueEmission ==
    Analyzed =>
        LET issues == architectureAnalysis.issues
        IN  /\ \A k \in DOMAIN issues : issues[k].type \in Range(IssueOrder)
            /\ \A j, k \in DOMAIN issues :
                  j < k => IssueRank(issues[j].type) < IssueRank(issues[k].type)
            /\ \A type \in Range(IssueOrder) :
                  (IssuesOfType(type) # <<>>) <=> (TriggeringSet(type) # {})
            /\ \A k \in DOMAIN issues :
                  /\ issues[k].elements # <<>>
                  /\ issues[k].severity
                       = (IF issues[k].type = "UnhandledEvents" THEN "error" ELSE "warning")
            /\ (busUsages = <<>> /\ handlerDeclarations = <<>>) => issues = <<>>

\* all four issues have been emitted for one aggregate
C11_Witness ==
    /\ Analyzed
    /\ [k \in DOMAIN architectureAnalysis.issues |-> architectureAnalysis.issues[k].type]
         = IssueOrder
    /\ architectureAnalysis.issues[3].severity = "error"

\* C12: totalClasses, eventProducers, eventConsumers, totalEvents, orphanEvents and
\* orphanHandlers are the numbers of distinct class names over both edge kinds, of bus
\* usages, of handler edges, of distinct event types over both edge kinds, of unhandled
\* and of orphan event types; so totalClasses = eventProducers + eventConsumers
\* - dualRoleClasses and totalEvents = orphanEvents + orphanHandlers + the number of
\* event types both emitted and handled.
C12_Metrics ==
    Analyzed =>
        LET m == architectureAnalysis.metrics
        IN  /\ m.totalClasses = Cardinality(BusClassNames \cup HandlerClassNames)
            /\ m.eventProducers = Cardinality(BusClassNames)
            /\ m.eventConsumers = Cardinality(HandlerClassNames)
            /\ m.totalEvents = Cardinality(EmittedEvents \cup HandledEvents)
            /\ m.orphanEvents = Cardinality(EmittedEvents \ HandledEvents)
            /\ m.orphanHandlers = Cardinality(HandledEvents \ EmittedEvents)
            /\ m.totalClasses = m.eventProducers + m.eventConsumers - m.dualRoleClasses
            /\ m.totalEvents = m.orphanEvents + m.orphanHandlers
                                 + Cardinality(EmittedEvents \cap HandledEvents)

\* two classes, one of them dual-role; one event type emitted twice and handled, one
\* emitted and unhandled
C12_Witness ==
    /\ Analyzed
    /\ Len(busUsages) = 3
    /\ architectureAnalysis.metrics.totalClasses = 2
    /\ architectureAnalysis.metrics.eventProducers = 2
    /\ architectureAnalysis.metrics.eventConsumers = 1
    /\ architectureAnalysis.metrics.dualRoleClasses = 1
    /\ architectureAnalysis.metrics.totalEvents = 2
    /\ architectureAnalysis.metrics.orphanEvents = 1
    /\ architectureAnalysis.metrics.orphanHandlers = 0

-----------------------------------------------------------------------------
(* Properties of the bus usage extraction *)

\* the node the next VisitNode step handles is a call expression
AtCall ==
    /\ running # 0
    /\ pos <= Len(files[running])
    /\ files[running][pos].kind = "CallExpression"

\* which of the words event, query, command and bus a receiver name holds, whatever the case
KeywordsIn(name) ==
    CASE name = "commandBus" -> {"command", "bus"}
      [] name = "queryBus" -> {"query", "bus"}
      [] name = "eventBus" -> {"event", "bus"}
      [] name = "QueryBus" -> {"query", "bus"}
      [] name = "eventQueryBus" -> {"event", "query", "bus"}
      [] name = "commandQueryBus" -> {"command", "query", "bus"}
      [] name = "commandService" -> {"command"}
      [] name = "busyEventLog" -> {"bus", "event"}
      [] name = "bus" -> {"bus"}
      [] OTHER -> {}

\* the fixed-priority classifier: event, then query, then command, each together with bus
Classified(name) ==
    IF {"event", "bus"} \subseteq KeywordsIn(name) THEN "EventBus"
    ELSE IF {"query", "bus"} \subseteq KeywordsIn(name) THEN "QueryBus"
    ELSE IF {"command", "bus"} \subseteq KeywordsIn(name) THEN "CommandBus"
    ELSE Null

\* the receiver name: the identifier, the rightmost segment of a property access, else ""
ReceiverNameOf(receiver) ==
    IF receiver.kind \in {"Identifier", "PropertyAccess"} THEN receiver.name ELSE ""

\* the edges a step has appended to the bus usages
AddedBusUsages == SubSeq(busUsages', Len(busUsages) + 1, Len(busUsages'))

\* C13: for a call of publish, execute or dispatch on a receiver, the bus type recorded is
\* EventBus when the lower-cased receiver name holds event and bus, else QueryBus when it
\* holds query and bus, else CommandBus when it holds command and bus; otherwise (a name
\* without bus in particular) the call is not recorded.
C13_BusTypePriority ==
    [][(/\ AtCall
        /\ pos' = pos + 1
        /\ files[running][pos].receiver.kind # "None"
        /\ files[running][pos].name \in {"publish", "execute", "dispatch"}) =>
        LET type == Classified(ReceiverNameOf(files[running][pos].receiver))
        IN  IF type = Null THEN AddedBusUsages = <<>>
            ELSE Len(AddedBusUsages) = 1 /\ AddedBusUsages[1].busType = type]_vars

\* a call on eventQueryBus has been recorded as an EventBus usage
C13_Witness ==
    /\ running # 0
    /\ pos = 2
    /\ files[running][1].kind = "CallExpression"
    /\ ReceiverNameOf(files[running][1].receiver) = "eventQueryBus"
    /\ Len(busUsages) = 1
    /\ busUsages[1].busType = "EventBus"

\* C14: processPotentialBusUsage appends exactly one bus usage when the callee is a
\* property access whose method name is exactly publish, execute or dispatch and whose
\* receiver name classifies as a bus type, and appends nothing otherwise; it keeps the bus
\* usages it found and leaves handlerDeclarations alone.
C14_BusUsageRecorded ==
    [][(AtCall /\ pos' = pos + 1) =>
        LET node == files[running][pos]
            recorded == /\ node.receiver.kind # "None"
                        /\ node.name \in {"publish", "execute", "dispatch"}
                        /\ Classified(ReceiverNameOf(node.receiver)) # Null
        IN  /\ handlerDeclarations' = handlerDeclarations
            /\ IsPrefix(busUsages, busUsages')
            /\ Len(AddedBusUsages) = (IF recorded THEN 1 ELSE 0)
            /\ recorded => AddedBusUsages[1].sourceFile = Paths[running]]_vars

\* this.commandBus.execute(...) inside a method has been recorded with the rightmost
\* segment of its receiver
C14_Witness ==
    /\ running # 0
    /\ pos = 4
    /\ files[running][3].kind = "CallExpression"
    /\ files[running][3].receiver = PropertyAccess("this", "commandBus")
    /\ files[running][3].name = "execute"
    /\ Len(busUsages) = 1
    /\ busUsages[1].busType = "CommandBus"
    /\ busUsages[1].className = "A"
    /\ handlerDeclarations = <<>>

\* the ordered fallback of the event type of a call
FallbackType(node) ==
    IF node.typeArguments # <<>> THEN node.typeArguments[1]
    ELSE IF node.arguments = <<>> THEN "Unknown"
    ELSE LET first == node.arguments[1]
         IN  CASE first.kind = "New" /\ first.obj = "" -> first.name
               [] first.kind = "Identifier" -> first.name
               [] first.kind = "PropertyAccess" -> first.name
               [] OTHER -> "Unknown"

\* C15: the event type of a recorded bus call is its first type argument when it has
\* one; otherwise the callee of a first argument new X(), the text of a first argument
\* that is an identifier, the rightmost segment of a first argument that is a property
\* access; otherwise Unknown.  Later arguments are not consulted.
C15_EventTypeFallback ==
    [][(AtCall /\ pos' = pos + 1 /\ Len(AddedBusUsages) = 1) =>
        AddedBusUsages[1].eventType = FallbackType(files[running][pos])]_vars

\* a call with type arguments and a new-expression argument has been recorded with its
\* first type argument
C15_Witness ==
    /\ running # 0
    /\ pos = 2
    /\ files[running][1].kind = "CallExpression"
    /\ files[running][1].typeArguments = <<"T1", "T2">>
    /\ files[running][1].arguments = <<NewExpr("Foo")>>
    /\ Len(busUsages) = 1
    /\ busUsages[1].eventType = "T1"

\* no type can be resolved for a call or a decorator call
Unresolved(node) ==
    /\ node.typeArguments = <<>>
    /\ \/ node.arguments = <<>>
       \/ /\ node.arguments[1].kind \notin {"Identifier", "PropertyAccess"}
          /\ ~(node.arguments[1].kind = "New" /\ node.arguments[1].obj = "")

\* no type can be resolved for any occurrence of handler kind K on class node i
UnresolvedKind(nodes, i, K) ==
    /\ \A m \in Range(decoratorMatches(ClassText(nodes, i), 1)) :
          m.handlerType = K => Range(m.argsText) \subseteq Punctuation
    /\ \A d \in Range(nodes[i].decorators) :
          (IsHandlerDecorator(d) /\ d.callee.name = K) => Unresolved(d)

-----------------------------------------------------------------------------
(* Properties of a run over several units *)

\* the edges the traversal of unit u pushes into an empty aggregate
UnitEdges(u) == visitNodes(files[u], 1, Paths[u], EmptyResult)

\* the edges of a list that were found in unit u
EdgesFrom(edges, u) ==
    LET FromUnit(e) == e.sourceFile = Paths[u]
    IN  SelectSeq(edges, FromUnit)

\* how often each edge occurs in a list
BagOf(edges) == [e \in Range(edges) |-> Cardinality({k \in DOMAIN edges : edges[k] = e})]

\* C17 as stated: when a unit has failed, its error was caught and logged by analyzeFile
\* and analyze went on: every other unit was processed to completion and each of its
\* edges is in the aggregate Promise.all left, and the architecture analysis runs on
\* the aggregate.
C17_UnitIsolation ==
    (Truncated /\ \E u \in Units : status[u] = "failed") =>
        /\ \A u \in Units :
              /\ status[u] \in {"done", "failed"}
              /\ status[u] = "failed" =>
                    [what |-> "analyzeFile", of |-> Paths[u]] \in Range(errors)
              /\ status[u] = "done" =>
                    /\ Range(UnitEdges(u).busUsages) \subseteq Range(collected.busUsages)
                    /\ Range(UnitEdges(u).handlerDeclarations)
                          \subseteq Range(collected.handlerDeclarations)
        /\ Analyzed => architectureAnalysis = analyzeArchitecture(analysisResult)

\* the set of formats createDiagramGenerator has a generator for
Recognized == {"mermaid", "Mermaid"}

\* C18 as stated: a run that requested a diagram format without a generator (html and
\* svg included) does not return to its caller normally.
C18_HardFailure ==
    pc = "done" => \A k \in DOMAIN diagramFormat : diagramFormat[k] \in Recognized

\* C19 as stated: when every unit was processed, the aggregate Promise.all left holds
\* for each unit exactly the edges that unit contributes by itself, each as often,
\* whatever the order in which the tasks completed.
C19_OrderIndependent ==
    (Truncated /\ \A u \in Units : status[u] = "done") =>
        \A u \in Units :
            /\ BagOf(EdgesFrom(collected.busUsages, u)) = BagOf(UnitEdges(u).busUsages)
            /\ BagOf(EdgesFrom(collected.handlerDeclarations, u))
                 = BagOf(UnitEdges(u).handlerDeclarations)

\* the positions of a list that hold edges of unit u
BlockOf(edges, u) == {k \in DOMAIN edges : edges[k].sourceFile = Paths[u]}

\* the edges of unit u are next to each other and in traversal order
IsOneBlock(edges, u) ==
    \A a, b \in BlockOf(edges, u) :
        a < b => /\ \A k \in a..b : k \in BlockOf(edges, u)
                 /\ edges[a].position <= edges[b].position

\* C20: in busUsages and in handlerDeclarations the edges of one unit form one
\* contiguous block, in the order of the unit's pre-order traversal, under every
\* scheduling of the analyzeFile tasks.
C20_UnitAtomicity ==
    \A u \in Units : IsOneBlock(busUsages, u) /\ IsOneBlock(handlerDeclarations, u)

\* the second unit completed first; each unit has its two bus usages in one block
C20_Witness ==
    /\ pc = "extract"
    /\ Len(busUsages) = 4
    /\ BlockOf(busUsages, 2) = {1, 2}
    /\ BlockOf(busUsages, 1) = {3, 4}
    /\ busUsages[1].position < busUsages[2].position

-----------------------------------------------------------------------------
(* Properties of the pipeline of analyze *)

\* the orders in which the tasks of all units can complete
CompletionOrders ==
    {order \in [1..Len(files) -> Units] :
        \A j, k \in 1..Len(files) : j # k => order[j] # order[k]}

\* the aggregate after the first k units of an order were traversed, one after the other
RECURSIVE AggregateIn(_, _)
AggregateIn(order, k) ==
    IF k = 0 THEN EmptyResult
    ELSE visitNodes(files[order[k]], 1, Paths[order[k]], AggregateIn(order, k - 1))

\* the discovery order of the units
DiscoveryOrder == [k \in 1..Len(files) |-> k]

\* the edges that survive a budget M: the two-stage prefix rule
Survivors(aggregate, M) ==
    LET B == Len(aggregate.busUsages)
        H == Len(aggregate.handlerDeclarations)
        keptBus == IF 2 * B > M THEN M \div 2 ELSE B
        R == M - keptBus
        keptHandlers == IF R > 0 /\ H > R THEN R ELSE H
    IN  IF M <= 0 \/ B + H <= M THEN aggregate
        ELSE [busUsages |-> SubSeq(aggregate.busUsages, 1, keptBus),
              handlerDeclarations |-> SubSeq(aggregate.handlerDeclarations, 1, keptHandlers)]

\* C21: when every unit was processed, the surviving edges are those the prefix rule
\* leaves of the aggregate of one completion order of the tasks, so they are determined
\* by that order; the witness below is a run whose completion order leaves another set
\* of surviving edges, and other issues and metrics, than the discovery order does for
\* the same units and budget.
C21_SurvivorsFollowOrder ==
    (Truncated /\ \A u \in Units : status[u] = "done") =>
        \E order \in CompletionOrders :
            /\ collected = AggregateIn(order, Len(files))
            /\ analysisResult = Survivors(collected, maxEdges)

\* a run over the units of the discovery-order run, with the same edges before the
\* truncation, whose surviving edges and architecture analysis differ from those of the
\* discovery order
C21_Witness ==
    LET inOrder == AggregateIn(DiscoveryOrder, Len(files))
        kept == Survivors(inOrder, maxEdges)
    IN  /\ Analyzed
        /\ \A u \in Units : status[u] = "done"
        /\ maxEdges > 0
        /\ Len(collected.busUsages) + Len(collected.handlerDeclarations) > maxEdges
        /\ BagOf(collected.busUsages) = BagOf(inOrder.busUsages)
        /\ BagOf(collected.handlerDeclarations) = BagOf(inOrder.handlerDeclarations)
        /\ Range(busUsages) # Range(kept.busUsages)
        /\ architectureAnalysis.issues # analyzeArchitecture(kept).issues
        /\ architectureAnalysis.metrics # analyzeArchitecture(kept).metrics

\* the event types the issue of a type would list for an aggregate
IssueElementsFor(aggregate, type) ==
    LET OfType(issue) == issue.type = type
        found == SelectSeq(analyzeArchitecture(aggregate).issues, OfType)
    IN  IF found = <<>> THEN {} ELSE Range(found[1].elements)

\* a step of analyze: the analysis is assigned once, between the limit and the diagrams;
\* the aggregate is left alone after the limit; the phases follow each other
PipelineStep ==
    /\ (architectureAnalysis' # architectureAnalysis)
          => (pc = "analyze" /\ pc' = "diagrams")
    /\ Truncated => (analysisResult' = analysisResult)
    /\ (pc' # pc) =>
          (<<pc, pc'>> \in {<<"start", "extract">>, <<"extract", "analyze">>,
                            <<"analyze", "diagrams">>, <<"diagrams", "done">>})

-----------------------------------------------------------------------------
(* Properties of the handler edges of a unit *)

\* the handler kinds of the annotations attached to a class declaration itself
AttachedKinds(node) ==
    {d.callee.name :
        d \in {x \in Range(node.decorators) :
                   x.callee.kind = "Identifier" /\ x.callee.name \in HandlerTypes}}

\* the number of annotations of kind K attached to the class declarations of a unit
AnnotationCount(nodes, K) ==
    Cardinality({<<i, k>> \in (DOMAIN nodes) \X (1..MaxDecorators) :
                    /\ nodes[i].kind = "ClassDeclaration"
                    /\ k <= Len(nodes[i].decorators)
                    /\ nodes[i].decorators[k].callee.kind = "Identifier"
                    /\ nodes[i].decorators[k].callee.name = K})

\* C23 as stated: every handler edge with class name C and kind K was found at a
\* declaration of class C that carries a K annotation itself (an occurrence inside the
\* body of C gives C no edge), and the edges of a kind are no more than the annotations
\* of that kind.
C23_OwnAnnotationsOnly ==
    /\ \A k \in DOMAIN handlerDeclarations :
          LET h == handlerDeclarations[k]
              node == files[1][h.position]
          IN  /\ node.kind = "ClassDeclaration"
              /\ node.name = h.className
              /\ h.handlerType \in AttachedKinds(node)
    /\ \A K \in HandlerTypes :
          LET OfKind(h) == h.handlerType = K
          IN  Len(SelectSeq(handlerDeclarations, OfKind)) <= AnnotationCount(files[1], K)

\* the first handler decorator of kind K on a class declaration
FirstHandlerDecorator(node, K) ==
    LET OfKind(d) == IsHandlerDecorator(d) /\ d.callee.name = K
    IN  SelectSeq(node.decorators, OfKind)[1]

\* steps (2) and (3) of the fallback: the first argument alone decides
ArgumentType(node) ==
    IF node.arguments = <<>> THEN "Unknown"
    ELSE LET first == node.arguments[1]
         IN  CASE first.kind = "New" /\ first.obj = "" -> first.name
               [] first.kind = "Identifier" -> first.name
               [] first.kind = "PropertyAccess" -> first.name
               [] OTHER -> "Unknown"

\* the edges a step on a class declaration has appended after those of Path A
PathBAdded ==
    SubSeq(handlerDeclarations',
           Len(handlerDeclarations) + Len(decoratorMatches(ClassText(files[running], pos), 1)) + 1,
           Len(handlerDeclarations'))

\* C24 as stated: the event type of an edge of Path B is inferred from the first
\* argument of the decorator call alone; a type argument of the decorator call is
\* never used.
C24_ArgumentOnly ==
    [][(AtNamedClass /\ pos' = pos + 1) =>
        \A k \in DOMAIN PathBAdded :
            PathBAdded[k].eventType
              = ArgumentType(FirstHandlerDecorator(files[running][pos],
                                                   PathBAdded[k].handlerType))]_vars

\* C24 amended: the event type of an edge of Path B is inferred with the whole ordered
\* fallback of the bus usages, step (1) included: the first type argument of the
\* decorator call when it has one, otherwise its first argument (new-expression callee,
\* identifier, rightmost segment of a property access), otherwise Unknown.
C24_SameFallback ==
    [][(AtNamedClass /\ pos' = pos + 1) =>
        \A k \in DOMAIN PathBAdded :
            PathBAdded[k].eventType
              = FallbackType(FirstHandlerDecorator(files[running][pos],
                                                   PathBAdded[k].handlerType))]_vars

\* @QueryHandler<Foo>(Bar) class A has been processed: Path B alone found it, with Foo
C24_Witness ==
    /\ running # 0
    /\ pos = 2
    /\ files[running][1].decorators
         = <<Decorator(Identifier("QueryHandler"), TRUE, <<"Foo">>, <<Identifier("Bar")>>)>>
    /\ decoratorMatches(ClassText(files[running], 1), 1) = <<>>
    /\ Len(handlerDeclarations) = 1
    /\ handlerDeclarations[1].eventType = "Foo"

-----------------------------------------------------------------------------
(* Properties of the method name of a bus usage *)

\* the innermost method declaration around node i, 0 if there is none
RECURSIVE InnermostMethod(_, _)
InnermostMethod(nodes, i) ==
    IF i = 0 THEN 0
    ELSE IF nodes[i].kind = "MethodDeclaration" THEN i
    ELSE InnermostMethod(nodes, nodes[i].parent)

\* the innermost method declaration with an identifier name around node i, 0 if none
RECURSIVE InnermostNamedMethod(_, _)
InnermostNamedMethod(nodes, i) ==
    IF i = 0 THEN 0
    ELSE IF nodes[i].kind = "MethodDeclaration" /\ nodes[i].isIdent THEN i
    ELSE InnermostNamedMethod(nodes, nodes[i].parent)

\* C25 as stated: the methodName of a recorded bus usage is the name of the innermost
\* enclosing method declaration whose name is an identifier, method declarations with
\* another name being passed over; it is null exactly when there is no such method.
C25_InnermostNamedMethod ==
    [][(AtCall /\ pos' = pos + 1 /\ Len(AddedBusUsages) = 1) =>
        LET m == InnermostNamedMethod(files[running], pos)
        IN  AddedBusUsages[1].methodName = (IF m = 0 THEN Null ELSE files[running][m].name)]_vars

\* C25 amended: the methodName of a recorded bus usage is decided by the innermost
\* enclosing method declaration alone: its name when that is an identifier, null when
\* it is not (the search does not go on outward) and null when no method declaration
\* encloses the call; it is never a sentinel string.
C25_InnermostMethod ==
    [][(AtCall /\ pos' = pos + 1 /\ Len(AddedBusUsages) = 1) =>
        LET m == InnermostMethod(files[running], pos)
        IN  AddedBusUsages[1].methodName
              = (IF m # 0 /\ files[running][m].isIdent THEN files[running][m].name
                 ELSE Null)]_vars

\* a call in a method with a computed name inside the method outer has been recorded
\* without a method name
C25_Witness ==
    /\ running # 0
    /\ pos = 5
    /\ files[running][2].kind = "MethodDeclaration" /\ files[running][2].isIdent
    /\ files[running][3].kind = "MethodDeclaration" /\ ~files[running][3].isIdent
    /\ files[running][4].kind = "CallExpression" /\ files[running][4].parent = 3
    /\ Len(busUsages) = 1
    /\ busUsages[1].methodName = Null

-----------------------------------------------------------------------------
(* Properties of failed extractions *)

\* C26 as stated: a unit whose extraction failed, at its read or part-way through its
\* traversal, has no edge in the aggregate.
C26_FailedUnitSkipped ==
    \A u \in Units :
        status[u] = "failed" =>
            /\ EdgesFrom(busUsages, u) = <<>>
            /\ EdgesFrom(handlerDeclarations, u) = <<>>

\* a visitNode step on a class whose introspection threw: nothing is logged as an
\* error, no unit fails, the traversal moves to the next node, and the aggregate grows
\* by exactly the edges of Path A
DegradedStep ==
    VisitNodeCaught =>
        /\ errors' = errors
        /\ status' = status
        /\ running' = running
        /\ pos' = pos + 1
        /\ busUsages' = busUsages
        /\ handlerDeclarations'
             = handlerDeclarations \o PathAEdges(files[running], pos, Paths[running])

\* C27 as stated: when the introspection of a class throws at any point, no error
\* propagates, the traversal goes on, and the edges recorded for the class are exactly
\* those of Path A.
C27_DegradesToPathA == [][DegradedStep]_vars

-----------------------------------------------------------------------------
(* Coverage of the handler declarations *)

\* C28 as stated: for every named class declaration D of a processed unit U and every
\* handler kind K that Path A or Path B detects at D, the aggregate Promise.all left
\* holds an edge with the class name of D, kind K and source file U.
C28_EveryDeclarationCovered ==
    Truncated =>
        \A u \in Units :
            status[u] = "done" =>
                \A i \in DOMAIN files[u] :
                    (files[u][i].kind = "ClassDeclaration" /\ files[u][i].name # "") =>
                        \A K \in PathAKinds(files[u], i) \cup PathBKinds(files[u], i) :
                            \E k \in DOMAIN collected.handlerDeclarations :
                                LET h == collected.handlerDeclarations[k]
                                IN  /\ h.className = files[u][i].name
                                    /\ h.handlerType = K
                                    /\ h.sourceFile = Paths[u]

====
